---- MODULE Spec2Model ----
(***************************************************************************)
(* The worktree state and coordination layer of wt-agent: the GitService   *)
(* class (lock / unlock / handoff, checkpoints, port leases, gc) together  *)
(* with the part of git and of the file system that it reads and writes.   *)
(*                                                                         *)
(* A feature identifier is a sequence of one-character strings, because    *)
(* getWorktreeDir rewrites it character by character.  A directory under   *)
(* .worktrees is named by the normalised identifier.  A file that may be   *)
(* absent is a function whose DOMAIN holds the directories that have it;   *)
(* a JSON document is a function from the field names it holds to their    *)
(* values; an optional value is a sequence of length 0 or 1.               *)
(***************************************************************************)
EXTENDS Integers, Sequences, FiniteSets, TLC

\* ------------------------------------------------------------ bounds
\* commits in the object store, the root commit included
MaxCommits == 2
\* ports of the pool that the requests of one worktree reach
MaxLeases == 2
\* commits in the object store of the checkpoint runs, the root included
MaxCheckpointCommits == 3

\* ------------------------------------------------- program constants
PortLo == 8000
PortHi == 8050

Ports == PortLo..PortHi

\* --------------------------------------------------- partial mappings
Empty == [x \in {} |-> 0]
Put(f, k, v) == [x \in DOMAIN f \cup {k} |-> IF x = k THEN v ELSE f[x]]
Drop(f, k) == [x \in DOMAIN f \ {k} |-> f[x]]
DropAll(f, S) == [x \in DOMAIN f \ S |-> f[x]]
Opt(f, k) == IF k \in DOMAIN f THEN <<f[k]>> ELSE <<>>
\* f with the optional value o at k (k removed when o is absent)
PutOpt(f, k, o) == IF o = <<>> THEN Drop(f, k) ELSE Put(f, k, o[1])

\* JavaScript truthiness of an optional string and of an optional number
TruthyStr(o) == o # <<>> /\ o[1] # ""
TruthyNum(o) == o # <<>> /\ o[1] # 0

\* ------------------------------------------------------ getWorktreeDir
Letters ==
  {"a","b","c","d","e","f","g","h","i","j","k","l","m","n","o","p","q","r",
   "s","t","u","v","w","x","y","z","A","B","C","D","E","F","G","H","I","J",
   "K","L","M","N","O","P","Q","R","S","T","U","V","W","X","Y","Z"}
Digits == {"0","1","2","3","4","5","6","7","8","9"}
AllowedChars == Letters \cup Digits \cup {"-"}

\* feature.replace(/[/\\]/g, '-')
ReplaceSeparators(s) ==
  [i \in 1..Len(s) |-> IF s[i] \in {"/", "\\"} THEN "-" ELSE s[i]]
\* .replace(/[^a-zA-Z0-9-]/g, '')
StripDisallowed(s) == SelectSeq(s, LAMBDA c : c \in AllowedChars)
\* the separators stripped with the other disallowed characters
normalizedStripFirst(feature) == ReplaceSeparators(StripDisallowed(feature))

normalized(feature) == StripDisallowed(ReplaceSeparators(feature))
\* path.join(baseDir, '.worktrees', normalized): the directory is named by
\* the normalised identifier
getWorktreeDir(feature) == normalized(feature)

VARIABLES
  worktrees,  \* registered worktree directories under .worktrees -> branch
  branches,   \* local feature branches -> head commit
  commits,    \* the object store: commit id -> [parent, files, meta, env]
  mainHead,   \* head commit of the local base branch main
  origin,     \* optional head commit of origin/main (absent: no such ref)
  ignoreEnv,  \* whether the repository's ignore rules cover .env.local
  marksLinked,\* whether `git branch` marks branches of linked worktrees with +
  work,       \* directory -> user files of the working tree (name -> content)
  metadata,   \* directory -> metadata.json document, where the file exists
  envLocal,   \* directory -> port of the PORT= line of .env.local, where it exists
  porcelain,  \* the entries that `git status --porcelain` prints in a worktree
  calls,      \* process -> its invocation in steps: position, values read, outcome
  last        \* the last completed call: operation, arguments, outcome

vars == <<worktrees, branches, commits, mainHead, origin, ignoreEnv,
          marksLinked, work, metadata, envLocal, porcelain, calls, last>>

\* what a call that fails, or that writes metadata files only, leaves alone
gitVars == <<worktrees, branches, commits, mainHead, origin, ignoreEnv,
             marksLinked, work, porcelain, calls>>

\* --------------------------------------------------------- call record
\* err = "ok" for a call that returned; ret is the optional returned port
\* or commit; removed is gc's removed list (as a set of branches)
Call(op, feature, agent, force, err, ret, removed) ==
  [op |-> op, feature |-> feature, agent |-> agent, force |-> force,
   err |-> err, ret |-> ret, removed |-> removed]

NoFeature == <<>>

\* ----------------------------------------------------- git working tree
RootCommit == 1
EmptyTree == [parent |-> 0, files |-> Empty, meta |-> <<>>, env |-> <<>>]

HeadOf(d) == branches[worktrees[d]]
HeadTree(d) == commits[HeadOf(d)]

RECURSIVE Ancestors(_)
Ancestors(c) == IF c = 0 THEN {} ELSE {c} \cup Ancestors(commits[c].parent)

\* the entries of `git status --porcelain` in directory d, by file name
UserNames(d) == DOMAIN work[d] \cup DOMAIN HeadTree(d).files
StatusLines(d) ==
  {n \in UserNames(d) : Opt(work[d], n) # Opt(HeadTree(d).files, n)}
  \cup (IF Opt(metadata, d) # HeadTree(d).meta THEN {"metadata.json"} ELSE {})
  \cup (IF Opt(envLocal, d) # HeadTree(d).env
           /\ (HeadTree(d).env # <<>> \/ ~ignoreEnv)
        THEN {".env.local"} ELSE {})

isClean(d) == StatusLines(d) \ {"metadata.json"} = {}

getLockStatus(d) ==
  IF d \in DOMAIN metadata THEN Opt(metadata[d], "lockedBy") ELSE <<>>

\* the WorktreeInfo records of the registered worktrees under .worktrees
listWorktrees ==
  {[path |-> d, branch |-> worktrees[d], isClean |-> isClean(d),
    lockedBy |-> getLockStatus(d)] : d \in DOMAIN worktrees}

Init ==
  /\ worktrees = Empty
  /\ branches = Empty
  /\ commits = <<EmptyTree>>
  /\ mainHead = RootCommit
  /\ origin = <<RootCommit>>
  /\ ignoreEnv = FALSE
  /\ marksLinked \in BOOLEAN
  /\ porcelain = <<>>
  /\ calls = Empty
  /\ work = Empty
  /\ metadata = Empty
  /\ envLocal = Empty
  /\ last = Call("init", NoFeature, "", FALSE, "ok", <<>>, {})

\* ---------------------------------------------------------- addWorktree
\* create(feature) with base main, no hook, no dependency isolation.
\* `git worktree add -b feature path main`, and when the branch already
\* exists `git worktree add path feature`; the files of the branch head
\* are checked out.
addWorktree(feature) ==
  LET d == getWorktreeDir(feature)
      head == IF feature \in DOMAIN branches THEN branches[feature] ELSE mainHead
      tree == commits[head]
  IN IF d \in DOMAIN worktrees
     THEN /\ last' = Call("create", feature, "", FALSE, "AlreadyExists", <<>>, {})
          /\ UNCHANGED <<gitVars, metadata, envLocal>>
     ELSE /\ worktrees' = Put(worktrees, d, feature)
          /\ branches' = Put(branches, feature, head)
          /\ work' = Put(work, d, tree.files)
          /\ metadata' = PutOpt(metadata, d, tree.meta)
          /\ envLocal' = PutOpt(envLocal, d, tree.env)
          /\ last' = Call("create", feature, "", FALSE, "ok", <<>>, {})
          /\ UNCHANGED <<commits, mainHead, origin, ignoreEnv, marksLinked, porcelain, calls>>

\* ---------------------------------------------------------- lockWorktree
lockDataWithoutOwner(agentId, t) == Put(Empty, "timestamp", t)

lockData(agentId, t) == Put(Put(Empty, "lockedBy", agentId), "timestamp", t)

lockWorktree(feature, agentId, t) ==
  LET d == getWorktreeDir(feature)
      currentLock == getLockStatus(d)
  IN IF d \notin DOMAIN worktrees
     THEN /\ last' = Call("lock", feature, agentId, FALSE, "NotFound", <<>>, {})
          /\ UNCHANGED <<gitVars, metadata, envLocal>>
     ELSE IF TruthyStr(currentLock) /\ currentLock[1] # agentId
     THEN /\ last' = Call("lock", feature, agentId, FALSE, "LockConflict", <<>>, {})
          /\ UNCHANGED <<gitVars, metadata, envLocal>>
     ELSE /\ metadata' = Put(metadata, d, lockData(agentId, t))
          /\ last' = Call("lock", feature, agentId, FALSE, "ok", <<>>, {})
          /\ UNCHANGED <<gitVars, envLocal>>

\* -------------------------------------------------------- unlockWorktree
\* the document deleted before the owner is compared
unlockWorktreeDeletesFirst(feature, agentId, force) ==
  LET d == getWorktreeDir(feature)
      currentLock == getLockStatus(d)
  IN /\ last' = Call("unlock", feature, agentId, force,
                     IF d \notin DOMAIN worktrees THEN "NotFound"
                     ELSE IF TruthyStr(currentLock) /\ currentLock[1] # agentId /\ ~force
                     THEN "LockConflict" ELSE "ok", <<>>, {})
     /\ metadata' = IF d \in DOMAIN worktrees /\ TruthyStr(currentLock)
                    THEN Drop(metadata, d) ELSE metadata
     /\ UNCHANGED <<gitVars, envLocal>>

unlockWorktree(feature, agentId, force) ==
  LET d == getWorktreeDir(feature)
      currentLock == getLockStatus(d)
  IN IF d \notin DOMAIN worktrees
     THEN /\ last' = Call("unlock", feature, agentId, force, "NotFound", <<>>, {})
          /\ UNCHANGED <<gitVars, metadata, envLocal>>
     ELSE IF ~TruthyStr(currentLock)
     THEN \* already unlocked
          /\ last' = Call("unlock", feature, agentId, force, "ok", <<>>, {})
          /\ UNCHANGED <<gitVars, metadata, envLocal>>
     ELSE IF currentLock[1] # agentId /\ ~force
     THEN /\ last' = Call("unlock", feature, agentId, force, "LockConflict", <<>>, {})
          /\ UNCHANGED <<gitVars, metadata, envLocal>>
     ELSE \* fs.unlinkSync(metadataPath)
          /\ metadata' = Drop(metadata, d)
          /\ last' = Call("unlock", feature, agentId, force, "ok", <<>>, {})
          /\ UNCHANGED <<gitVars, envLocal>>

\* --------------------------------------------------------------- handoff
\* data = the parsed document, or {} when there is no metadata.json
readData(d) == IF d \in DOMAIN metadata THEN metadata[d] ELSE Empty

handoff(feature, toAgentId, t) ==
  LET d == getWorktreeDir(feature)
      data == Put(Put(readData(d), "lockedBy", toAgentId), "timestamp", t)
  IN IF d \notin DOMAIN worktrees
     THEN /\ last' = Call("handoff", feature, toAgentId, FALSE, "NotFound", <<>>, {})
          /\ UNCHANGED <<gitVars, metadata, envLocal>>
     ELSE /\ metadata' = Put(metadata, d, data)
          /\ last' = Call("handoff", feature, toAgentId, FALSE, "ok", <<>>, {})
          /\ UNCHANGED <<gitVars, envLocal>>

\* ------------------------------------------------------------ contextSet
contextSet(feature, contextMsg) ==
  LET d == getWorktreeDir(feature)
      data == Put(readData(d), "context", contextMsg)
  IN IF d \notin DOMAIN worktrees
     THEN /\ last' = Call("contextSet", feature, "", FALSE, "NotFound", <<>>, {})
          /\ UNCHANGED <<gitVars, metadata, envLocal>>
     ELSE /\ metadata' = Put(metadata, d, data)
          /\ last' = Call("contextSet", feature, "", FALSE, "ok", <<>>, {})
          /\ UNCHANGED <<gitVars, envLocal>>

\* ----------------------------------------------------------- portRequest
\* the ports of the metadata documents of the listed worktrees
usedPorts ==
  {metadata[wt.path]["port"] :
     wt \in {w \in listWorktrees :
               /\ w.path \in DOMAIN metadata
               /\ TruthyNum(Opt(metadata[w.path], "port"))}}

\* the scan started one port late: for (let p = 8001; ...)
assignedPortOffByOne ==
  IF (Ports \ {PortLo}) \ usedPorts = {} THEN -1
  ELSE CHOOSE p \in (Ports \ {PortLo}) \ usedPorts :
         \A q \in (Ports \ {PortLo}) \ usedPorts : p <= q

\* the scan falling back on the first port when none is free
assignedPortFallback ==
  IF Ports \ usedPorts = {} THEN PortLo
  ELSE CHOOSE p \in Ports \ usedPorts : \A q \in Ports \ usedPorts : p <= q

\* the first p of 8000..8050 that is not used, or -1
assignedPort ==
  IF Ports \ usedPorts = {} THEN -1
  ELSE CHOOSE p \in Ports \ usedPorts : \A q \in Ports \ usedPorts : p <= q

portRequest(feature) ==
  LET d == getWorktreeDir(feature)
      assigned == assignedPort
      data == Put(readData(d), "port", assigned)
  IN IF d \notin DOMAIN worktrees
     THEN /\ last' = Call("portRequest", feature, "", FALSE, "NotFound", <<>>, {})
          /\ UNCHANGED <<gitVars, metadata, envLocal>>
     ELSE IF assigned = -1
     THEN /\ last' = Call("portRequest", feature, "", FALSE, "RangeExhausted", <<>>, {})
          /\ UNCHANGED <<gitVars, metadata, envLocal>>
     ELSE /\ metadata' = Put(metadata, d, data)
          \* the PORT= line of .env.local is replaced, or appended
          /\ envLocal' = Put(envLocal, d, assigned)
          /\ last' = Call("portRequest", feature, "", FALSE, "ok", <<assigned>>, {})
          /\ UNCHANGED gitVars

\* ----------------------------------------------------------- portRelease
portRelease(feature) ==
  LET d == getWorktreeDir(feature)
  IN IF d \notin DOMAIN worktrees
     THEN /\ last' = Call("portRelease", feature, "", FALSE, "NotFound", <<>>, {})
          /\ UNCHANGED <<gitVars, metadata, envLocal>>
     ELSE /\ metadata' =
               IF d \in DOMAIN metadata /\ TruthyNum(Opt(metadata[d], "port"))
               THEN Put(metadata, d, Drop(metadata[d], "port"))
               ELSE metadata
          /\ last' = Call("portRelease", feature, "", FALSE, "ok", <<>>, {})
          /\ UNCHANGED <<gitVars, envLocal>>

\* -------------------------------------------------------- removeWorktree
\* `git worktree remove path` refuses a working tree with modified or
\* untracked files (metadata.json included); with --force it does not
gitWorktreeRemoveOk(d, force) == force \/ StatusLines(d) = {}

removeWorktree(feature, force) ==
  LET d == getWorktreeDir(feature)
      lockedBy == getLockStatus(d)
  IN IF d \notin DOMAIN worktrees
     THEN /\ last' = Call("remove", feature, "", force, "NotFound", <<>>, {})
          /\ UNCHANGED <<gitVars, metadata, envLocal>>
     ELSE IF TruthyStr(lockedBy) /\ ~force
     THEN /\ last' = Call("remove", feature, "", force, "LockConflict", <<>>, {})
          /\ UNCHANGED <<gitVars, metadata, envLocal>>
     ELSE IF ~force /\ ~isClean(d)
     THEN /\ last' = Call("remove", feature, "", force, "DirtyState", <<>>, {})
          /\ UNCHANGED <<gitVars, metadata, envLocal>>
     ELSE IF ~gitWorktreeRemoveOk(d, force)
     THEN /\ last' = Call("remove", feature, "", force, "CommandFailure", <<>>, {})
          /\ UNCHANGED <<gitVars, metadata, envLocal>>
     ELSE /\ worktrees' = Drop(worktrees, d)
          /\ work' = Drop(work, d)
          /\ metadata' = Drop(metadata, d)
          /\ envLocal' = Drop(envLocal, d)
          /\ last' = Call("remove", feature, "", force, "ok", <<>>, {})
          /\ UNCHANGED <<branches, commits, mainHead, origin, ignoreEnv, marksLinked, porcelain, calls>>

\* -------------------------------------------------------- checkpointSave
\* what `git add .` stages of .env.local: an ignored, untracked file is
\* left out
stagedEnv(d) ==
  IF HeadTree(d).env # <<>> \/ ~ignoreEnv THEN Opt(envLocal, d) ELSE HeadTree(d).env

\* the two commit identifiers recorded the other way round
savedDataSwapped(data, newSha, currentSha) ==
  Put(Put(data, "lastCheckpoint", currentSha), "checkpointBase", newSha)

\* a base that is already recorded is kept: checkpoints stack
savedDataKeepsFirstBase(data, newSha, currentSha) ==
  Put(Put(data, "lastCheckpoint", newSha), "checkpointBase",
      IF "checkpointBase" \in DOMAIN data THEN data["checkpointBase"] ELSE currentSha)

\* data.lastCheckpoint = newSha; data.checkpointBase = currentSha
savedData(data, newSha, currentSha) ==
  Put(Put(data, "lastCheckpoint", newSha), "checkpointBase", currentSha)

\* `git add .` and `git commit`: the commit fails, and is tolerated, when
\* nothing is staged.  The commit message does not reach the state.
checkpointSave(feature) ==
  LET d == getWorktreeDir(feature)
  IN IF d \notin DOMAIN worktrees
     THEN /\ last' = Call("checkpointSave", feature, "", FALSE, "NotFound", <<>>, {})
          /\ UNCHANGED <<gitVars, metadata, envLocal>>
     ELSE LET currentSha == HeadOf(d)
              commitMade == StatusLines(d) # {}
              tree == [parent |-> currentSha, files |-> work[d],
                       meta |-> Opt(metadata, d), env |-> stagedEnv(d)]
              newSha == IF commitMade THEN Len(commits) + 1 ELSE currentSha
              data == savedData(readData(d), newSha, currentSha)
          IN /\ commits' = IF commitMade THEN Append(commits, tree) ELSE commits
             /\ branches' = Put(branches, worktrees[d], newSha)
             /\ metadata' = Put(metadata, d, data)
             /\ last' = Call("checkpointSave", feature, "", FALSE, "ok", <<newSha>>, {})
             /\ UNCHANGED <<worktrees, mainHead, origin, ignoreEnv, marksLinked, porcelain, calls, work, envLocal>>

\* ----------------------------------------------------- checkpointRestore
\* `git reset --hard target`: a file tracked by the old head or by the
\* target takes the target's version (none: the file is deleted); an
\* untracked file stays as it is
\* a reset that moves the head and leaves the working tree as it is
resetOptKeepsWork(oldOpt, targetOpt, workOpt) == workOpt

resetOpt(oldOpt, targetOpt, workOpt) ==
  IF oldOpt # <<>> \/ targetOpt # <<>> THEN targetOpt ELSE workOpt

resetFiles(old, target, w) ==
  LET v(n) == resetOpt(Opt(old, n), Opt(target, n), Opt(w, n))
      names == {n \in DOMAIN old \cup DOMAIN target \cup DOMAIN w : v(n) # <<>>}
  IN [n \in names |-> v(n)[1]]

\* only lastCheckpoint is deleted
clearedDataKeepsBase(data) == Drop(data, "lastCheckpoint")

\* delete data.lastCheckpoint; delete data.checkpointBase
clearedData(data) == Drop(Drop(data, "lastCheckpoint"), "checkpointBase")

checkpointRestore(feature) ==
  LET d == getWorktreeDir(feature)
  IN IF d \notin DOMAIN worktrees
     THEN /\ last' = Call("checkpointRestore", feature, "", FALSE, "NotFound", <<>>, {})
          /\ UNCHANGED <<gitVars, metadata, envLocal>>
     ELSE IF d \notin DOMAIN metadata
             \/ ~TruthyNum(Opt(metadata[d], "checkpointBase"))
     THEN /\ last' = Call("checkpointRestore", feature, "", FALSE, "NoCheckpoint", <<>>, {})
          /\ UNCHANGED <<gitVars, metadata, envLocal>>
     ELSE LET base == metadata[d]["checkpointBase"]
              old == HeadTree(d)
              target == commits[base]
              data == clearedData(metadata[d])
          IN /\ branches' = Put(branches, worktrees[d], base)
             /\ work' = Put(work, d, resetFiles(old.files, target.files, work[d]))
             /\ envLocal' = PutOpt(envLocal, d,
                                   resetOpt(old.env, target.env, Opt(envLocal, d)))
             \* the reset's effect on metadata.json is overwritten by the write
             /\ metadata' = Put(metadata, d, data)
             \* restoredTo is read from data after checkpointBase was deleted
             /\ last' = Call("checkpointRestore", feature, "", FALSE, "ok",
                             Opt(data, "checkpointBase"), {})
             /\ UNCHANGED <<worktrees, commits, mainHead, origin, ignoreEnv, marksLinked, porcelain, calls>>

\* -------------------------------------------------------------------- gc
\* gc with base main.  `git branch --merged origin/main` fails when there
\* is no origin/main, and the failure skips the worktree.  A git that
\* marks a branch checked out in a linked worktree as "+ name" lists no
\* worktree's branch under its bare name.
linkedBranches == {worktrees[d] : d \in DOMAIN worktrees}

mergedBranches(head) ==
  {b \in DOMAIN branches \ (IF marksLinked THEN linkedBranches ELSE {}) :
     branches[b] \in Ancestors(head)}

isMerged(wt) ==
  wt.branch \in mergedBranches(origin[1]) \/ wt.branch \in mergedBranches(mainHead)

\* the loop leaving at the first failure: nothing is removed when a merged,
\* clean, unlocked worktree cannot be removed
gcRemovedUntilFailure ==
  IF \E wt \in listWorktrees :
       /\ origin # <<>>
       /\ isMerged(wt)
       /\ wt.isClean
       /\ ~TruthyStr(getLockStatus(wt.path))
       /\ ~gitWorktreeRemoveOk(wt.path, FALSE)
  THEN {}
  ELSE {wt \in listWorktrees :
          /\ origin # <<>>
          /\ isMerged(wt)
          /\ wt.isClean
          /\ ~TruthyStr(getLockStatus(wt.path))}

\* the worktrees whose directory gc removes
gcRemoved ==
  {wt \in listWorktrees :
     /\ origin # <<>>
     /\ isMerged(wt)
     /\ wt.isClean
     /\ ~TruthyStr(getLockStatus(wt.path))
     /\ gitWorktreeRemoveOk(wt.path, FALSE)}

\* `git branch -d` deletes a branch that is merged into the HEAD of the
\* main working tree (main); the branches have no upstream
gitBranchDeleteOk(branch) == branches[branch] \in Ancestors(mainHead)

gcListed == {wt \in gcRemoved : gitBranchDeleteOk(wt.branch)}

gc ==
  LET dirs == {wt.path : wt \in gcRemoved}
      deleted == {wt.branch : wt \in gcListed}
  IN /\ worktrees' = DropAll(worktrees, dirs)
     /\ work' = DropAll(work, dirs)
     /\ metadata' = DropAll(metadata, dirs)
     /\ envLocal' = DropAll(envLocal, dirs)
     /\ branches' = DropAll(branches, deleted)
     /\ last' = Call("gc", NoFeature, "", FALSE, "ok", <<>>, deleted)
     /\ UNCHANGED <<commits, mainHead, origin, ignoreEnv, marksLinked, porcelain, calls>>

\* ------------------------------------------------------- the environment
\* an agent writes a file in its worktree
writeFile(feature, name, content) ==
  LET d == getWorktreeDir(feature)
  IN /\ d \in DOMAIN worktrees
     /\ work' = Put(work, d, Put(work[d], name, content))
     /\ UNCHANGED <<worktrees, branches, commits, mainHead, origin, ignoreEnv,
                    marksLinked, porcelain, calls, metadata, envLocal, last>>

\* the feature branch is merged (fast-forward) into local main
mergeIntoMain(feature) ==
  /\ feature \in DOMAIN branches
  /\ mainHead \in Ancestors(branches[feature]) \ {branches[feature]}
  /\ mainHead' = branches[feature]
  /\ UNCHANGED <<worktrees, branches, commits, origin, ignoreEnv, marksLinked, porcelain, calls,
                 work, metadata, envLocal, last>>

\* the feature branch is merged (fast-forward) into main on the remote
mergeIntoOrigin(feature) ==
  /\ feature \in DOMAIN branches
  /\ origin # <<>>
  /\ origin[1] \in Ancestors(branches[feature]) \ {branches[feature]}
  /\ origin' = <<branches[feature]>>
  /\ UNCHANGED <<worktrees, branches, commits, mainHead, ignoreEnv, marksLinked, porcelain, calls,
                 work, metadata, envLocal, last>>

\* ---------------------------------------------------------------- inputs
Features == {<<"f", "/", "x">>}
PortFeatures == {<<"f", "/", "x">>, <<"g">>}
\* lockWorktree and handoff take any string, the empty one included
Agents == {"", "agentA", "agentB"}
\* Date.now(): the clock ticks with every commit, so a timestamp written
\* after a commit differs from the ones that the commit recorded
Times == {Len(commits)}
Messages == {"goal"}
UserFiles == {"data.txt"}
Contents == {"v1"}

\* the bounds: the object store holds at most MaxCommits commits, and a
\* request is given one of the first n ports of the pool
CommitRoom == Len(commits) < MaxCommits
LeaseRoom(n) == assignedPort < PortLo + n

\* every operation but the port leases, and the environment, on one
\* worktree
Next ==
  \/ \E f \in Features : addWorktree(f)
  \/ \E f \in Features, force \in BOOLEAN : removeWorktree(f, force)
  \/ \E f \in Features, a \in Agents, t \in Times : lockWorktree(f, a, t)
  \/ \E f \in Features, a \in Agents, force \in BOOLEAN : unlockWorktree(f, a, force)
  \/ \E f \in Features, a \in Agents, t \in Times : handoff(f, a, t)
  \/ \E f \in Features, m \in Messages : contextSet(f, m)
  \/ \E f \in Features : CommitRoom /\ checkpointSave(f)
  \/ \E f \in Features : checkpointRestore(f)
  \/ gc
  \/ \E f \in Features, n \in UserFiles, c \in Contents : writeFile(f, n, c)
  \/ \E f \in Features : mergeIntoMain(f)

Spec == Init /\ [][Next]_vars

\* ------------------------------------------------------ two worktrees
\* every operation on the first worktree, by one agent, and a second
\* worktree that is created, removed and leases ports
Lessee == <<"g">>
PortAgents == {"agentA"}

NextPorts ==
  \/ \E f \in Features \cup {Lessee} : addWorktree(f)
  \/ \E f \in Features \cup {Lessee} : removeWorktree(f, TRUE)
  \/ \E f \in Features, a \in PortAgents, t \in Times : lockWorktree(f, a, t)
  \/ \E f \in Features, a \in PortAgents : unlockWorktree(f, a, FALSE)
  \/ \E f \in Features, a \in PortAgents, t \in Times : handoff(f, a, t)
  \/ \E f \in Features, m \in Messages : contextSet(f, m)
  \/ \E f \in Features \cup {Lessee} : LeaseRoom(MaxLeases) /\ portRequest(f)
  \/ \E f \in Features \cup {Lessee} : portRelease(f)
  \/ \E f \in Features : CommitRoom /\ checkpointSave(f)
  \/ \E f \in Features : checkpointRestore(f)

\* no step of NextPorts lists branches, so one value of marksLinked is
\* enough
InitPorts == Init /\ ~marksLinked

SpecPorts == InitPorts /\ [][NextPorts]_vars

\* ------------------------------------------------ a pool nearly leased
\* NumLeased worktrees bg01, bg02, ... were created and each requested a
\* port, in this order: they hold PortLo, PortLo + 1, ...
NumLeased == PortHi - PortLo
DigitChar == <<"0", "1", "2", "3", "4", "5", "6", "7", "8", "9">>
LeasedFeature(i) == <<"b", "g", DigitChar[(i \div 10) + 1], DigitChar[(i % 10) + 1]>>
LeasedFeatures == {LeasedFeature(i) : i \in 1..NumLeased}
LeasedIndex(d) == CHOOSE i \in 1..NumLeased : LeasedFeature(i) = d

InitLeased ==
  /\ worktrees = [d \in LeasedFeatures |-> d]
  /\ branches = [d \in LeasedFeatures |-> RootCommit]
  /\ commits = <<EmptyTree>>
  /\ mainHead = RootCommit
  /\ origin = <<RootCommit>>
  /\ ignoreEnv = FALSE
  /\ marksLinked \in BOOLEAN
  /\ porcelain = <<>>
  /\ calls = Empty
  /\ work = [d \in LeasedFeatures |-> Empty]
  /\ metadata = [d \in LeasedFeatures |->
                   Put(Empty, "port", PortLo + LeasedIndex(d) - 1)]
  /\ envLocal = [d \in LeasedFeatures |-> PortLo + LeasedIndex(d) - 1]
  /\ last = Call("init", NoFeature, "", FALSE, "ok", <<>>, {})

NextLeased ==
  \/ \E f \in Features \cup {Lessee} : addWorktree(f)
  \/ \E f \in Features \cup {Lessee} : removeWorktree(f, TRUE)
  \/ \E f \in Features, a \in PortAgents, t \in Times : handoff(f, a, t)
  \/ \E f \in Features \cup {Lessee} : portRequest(f)
  \/ \E f \in Features \cup {Lessee} : portRelease(f)
  \/ \E f \in Features, n \in UserFiles, c \in Contents : writeFile(f, n, c)
  \/ gc

SpecLeased == InitLeased /\ [][NextLeased]_vars

\* --------------------------------------------- gc over two worktrees
\* the first worktree is worked on, checkpointed and merged, locally or on
\* the remote; the second is created and removed; the repository may have
\* no origin/main
GcAgents == {"agentA"}

InitGc ==
  /\ worktrees = Empty
  /\ branches = Empty
  /\ commits = <<EmptyTree>>
  /\ mainHead = RootCommit
  /\ origin \in {<<>>, <<RootCommit>>}
  /\ ignoreEnv = FALSE
  /\ marksLinked \in BOOLEAN
  /\ porcelain = <<>>
  /\ calls = Empty
  /\ work = Empty
  /\ metadata = Empty
  /\ envLocal = Empty
  /\ last = Call("init", NoFeature, "", FALSE, "ok", <<>>, {})

NextGc ==
  \/ \E f \in Features \cup {Lessee} : addWorktree(f)
  \/ \E f \in Features \cup {Lessee} : removeWorktree(f, TRUE)
  \/ \E f \in Features, a \in GcAgents, t \in Times : lockWorktree(f, a, t)
  \/ \E f \in Features, a \in GcAgents : unlockWorktree(f, a, FALSE)
  \/ \E f \in Features : CommitRoom /\ checkpointSave(f)
  \/ \E f \in Features, n \in UserFiles, c \in Contents : writeFile(f, n, c)
  \/ \E f \in Features : mergeIntoMain(f)
  \/ \E f \in Features : mergeIntoOrigin(f)
  \/ gc

SpecGc == InitGc /\ [][NextGc]_vars

\* ------------------------------------------- checkpoints of one worktree
\* files are written, checkpoints saved and restored, the worktree is
\* removed and created again; the object store holds at most
\* MaxCheckpointCommits commits
CheckpointFiles == {"data.txt", "new.txt"}
CheckpointContents == {"v1", "v2"}
CheckpointRoom == Len(commits) < MaxCheckpointCommits

NextCheckpoint ==
  \/ \E f \in Features : addWorktree(f)
  \/ \E f \in Features : removeWorktree(f, TRUE)
  \/ \E f \in Features : CheckpointRoom /\ checkpointSave(f)
  \/ \E f \in Features : checkpointRestore(f)
  \/ \E f \in Features, n \in CheckpointFiles, c \in CheckpointContents :
       writeFile(f, n, c)

SpecCheckpoint == InitPorts /\ [][NextCheckpoint]_vars

\* ------------------------------------------------------------- status
\* Text is a sequence of one-character strings.
NL == "\n"
WhiteSpace == {" ", NL}

\* String.prototype.trim
RECURSIVE trimStart(_)
trimStart(s) ==
  IF s # <<>> /\ Head(s) \in WhiteSpace THEN trimStart(Tail(s)) ELSE s

RECURSIVE trimEnd(_)
trimEnd(s) ==
  IF s # <<>> /\ s[Len(s)] \in WhiteSpace
  THEN trimEnd(SubSeq(s, 1, Len(s) - 1)) ELSE s

trim(s) == trimEnd(trimStart(s))

\* output.split(/\r?\n/): git prints no carriage return
RECURSIVE split(_)
split(s) ==
  IF \E i \in 1..Len(s) : s[i] = NL
  THEN LET i == CHOOSE j \in 1..Len(s) :
                  s[j] = NL /\ \A k \in 1..(j - 1) : s[k] # NL
       IN <<SubSeq(s, 1, i - 1)>> \o split(SubSeq(s, i + 1, Len(s)))
  ELSE <<s>>

\* String.prototype.includes
includes(s, sub) ==
  \E i \in 1..(Len(s) - Len(sub) + 1) : SubSeq(s, i, i + Len(sub) - 1) = sub

\* line.substring(from, to) and line.substring(from), counted from 0
substring(s, from, to) ==
  IF from >= Len(s) THEN <<>>
  ELSE SubSeq(s, from + 1, IF to < Len(s) THEN to ELSE Len(s))

MetadataName == <<"m", "e", "t", "a", "d", "a", "t", "a", ".", "j", "s", "o", "n">>

\* what `git status --porcelain` writes for the entries: the two status
\* characters, a space, the path and a line feed for each
RECURSIVE gitStatusPorcelain(_)
gitStatusPorcelain(entries) ==
  IF entries = <<>> THEN <<>>
  ELSE Head(entries).code \o <<" ">> \o Head(entries).path \o <<NL>>
         \o gitStatusPorcelain(Tail(entries))

\* exec: the output of the command, trimmed
exec(out) == trim(out)

keptLine(line) == trim(line) # <<>> /\ ~includes(line, MetadataName)

\* the lines that status classifies
statusLines(entries) ==
  SelectSeq(split(exec(gitStatusPorcelain(entries))), keptLine)

ConflictCodes ==
  {<<"U", "U">>, <<"A", "A">>, <<"D", "D">>, <<"A", "U">>, <<"U", "A">>,
   <<"D", "U">>, <<"U", "D">>}

codeIncludes(code, c) == \E i \in 1..Len(code) : code[i] = c

\* tests added before modified
bucketAddedFirst(code) ==
  IF code \in ConflictCodes THEN "conflicts"
  ELSE IF codeIncludes(code, "A") \/ code = <<"?", "?">> THEN "added"
  ELSE IF codeIncludes(code, "M") THEN "modified"
  ELSE IF codeIncludes(code, "D") THEN "deleted"
  ELSE "none"

\* the if/else chain of the forEach body
bucket(code) ==
  IF code \in ConflictCodes THEN "conflicts"
  ELSE IF codeIncludes(code, "M") THEN "modified"
  ELSE IF codeIncludes(code, "A") \/ code = <<"?", "?">> THEN "added"
  ELSE IF codeIncludes(code, "D") THEN "deleted"
  ELSE "none"

\* the files pushed, in the order of the lines, to the list named b
RECURSIVE pushed(_, _)
pushed(lines, b) ==
  IF lines = <<>> THEN <<>>
  ELSE LET line == Head(lines)
           code == substring(line, 0, 2)
           file == substring(line, 3, Len(line))
       IN (IF bucket(code) = b THEN <<file>> ELSE <<>>)
            \o pushed(Tail(lines), b)

statusResult(lines) ==
  [isClean |-> Len(lines) = 0,
   conflicts |-> pushed(lines, "conflicts"),
   modified |-> pushed(lines, "modified"),
   added |-> pushed(lines, "added"),
   deleted |-> pushed(lines, "deleted")]

status(feature) ==
  LET d == getWorktreeDir(feature)
  IN /\ IF d \notin DOMAIN worktrees
        THEN last' = Call("status", feature, "", FALSE, "NotFound", <<>>, {})
        ELSE last' = Call("status", feature, "", FALSE, "ok",
                          <<statusResult(statusLines(porcelain))>>, {})
     /\ UNCHANGED <<gitVars, metadata, envLocal>>

\* the input of status: up to MaxStatusLines entries, in which staged,
\* unstaged, unmerged, renamed, copied, type-changed and untracked codes
\* occur
MaxStatusLines == 2
StatusChars == {" ", "M", "A", "D", "U", "R", "C", "T", "?"}
StatusCodes == {<<x, y>> : x \in StatusChars, y \in StatusChars} \ {<<" ", " ">>}
StatusPaths == {<<"a">>, <<"b">>, MetadataName}
StatusEntries == [code : StatusCodes, path : StatusPaths]

RECURSIVE SeqsUpTo(_, _)
SeqsUpTo(S, n) ==
  IF n = 0 THEN {<<>>}
  ELSE LET shorter == SeqsUpTo(S, n - 1)
       IN shorter \cup {Append(q, e) : q \in shorter, e \in S}

InitStatus ==
  /\ worktrees = Empty
  /\ branches = Empty
  /\ commits = <<EmptyTree>>
  /\ mainHead = RootCommit
  /\ origin = <<RootCommit>>
  /\ ignoreEnv = FALSE
  /\ marksLinked = FALSE
  /\ work = Empty
  /\ metadata = Empty
  /\ envLocal = Empty
  /\ porcelain \in SeqsUpTo(StatusEntries, MaxStatusLines)
  /\ calls = Empty
  /\ last = Call("init", NoFeature, "", FALSE, "ok", <<>>, {})

NextStatus ==
  \/ \E f \in Features : addWorktree(f)
  \/ \E f \in Features : status(f)

SpecStatus == InitStatus /\ [][NextStatus]_vars

\* ------------------------------------------------------- getWorktreePath
\* the switch command: the path of the feature's worktree, whether or not
\* the worktree exists
getWorktreePath(feature) ==
  /\ last' = Call("switch", feature, "", FALSE, "ok", <<getWorktreeDir(feature)>>, {})
  /\ UNCHANGED <<gitVars, metadata, envLocal>>

\* the feature identifiers of up to MaxFeatureLen characters, separators,
\* allowed and disallowed characters among them
MaxFeatureLen == 3
FeatureChars == {"f", "7", "-", "/", "\\", "."}
FeatureIds == SeqsUpTo(FeatureChars, MaxFeatureLen)

\* paths are resolved while a worktree is created, locked and removed
NextResolve ==
  \/ \E f \in FeatureIds : getWorktreePath(f)
  \/ \E f \in Features : addWorktree(f)
  \/ \E f \in Features, a \in PortAgents, t \in Times : lockWorktree(f, a, t)
  \/ \E f \in Features : removeWorktree(f, TRUE)

SpecResolve == InitPorts /\ [][NextResolve]_vars

\* ------------------------------------- every operation, a pool nearly leased
\* every operation but gc on one worktree, by two agents, next to the
\* NumLeased worktrees that hold all ports but one
FailureAgents == {"agentA", "agentB"}

NextFailures ==
  \/ \E f \in Features : addWorktree(f)
  \/ \E f \in Features : removeWorktree(f, FALSE)
  \/ \E f \in Features, a \in FailureAgents, t \in Times : lockWorktree(f, a, t)
  \/ \E f \in Features, a \in FailureAgents : unlockWorktree(f, a, FALSE)
  \/ \E f \in Features, a \in PortAgents, t \in Times : handoff(f, a, t)
  \/ \E f \in Features, m \in Messages : contextSet(f, m)
  \/ \E f \in Features : portRequest(f)
  \/ \E f \in Features : portRelease(f)
  \/ \E f \in Features : CommitRoom /\ checkpointSave(f)
  \/ \E f \in Features : checkpointRestore(f)
  \/ \E f \in Features, n \in UserFiles, c \in Contents : writeFile(f, n, c)

InitFailures == InitLeased /\ ~marksLinked

SpecFailures == InitFailures /\ [][NextFailures]_vars

\* ------------------------------------------- invocations that interleave
\* Each invocation is its own process of the operating system; nothing
\* excludes one from another between two of its file or git accesses.  A
\* call record holds the position of the invocation (pc), what it has read
\* (seen: the lock owner, the chosen port, or the listing that gc still has
\* to go through; cur: the worktree gc is about to remove) and its outcome.
CallRec(op, feature, agent, pc, seen, cur, err, ret, removed) ==
  [op |-> op, feature |-> feature, agent |-> agent, pc |-> pc, seen |-> seen,
   cur |-> cur, err |-> err, ret |-> ret, removed |-> removed]

\* a process runs one invocation
Free(p) == p \notin DOMAIN calls
At(p, op, pc) == p \in DOMAIN calls /\ calls[p].op = op /\ calls[p].pc = pc

\* lockWorktree up to its test of the owner
lockWorktreeRead(p, feature, agentId) ==
  LET d == getWorktreeDir(feature)
      currentLock == getLockStatus(d)
      Done(err) == CallRec("lock", feature, agentId, "done", <<>>, <<>>, err, <<>>, {})
  IN /\ Free(p)
     /\ calls' = Put(calls, p,
          IF d \notin DOMAIN worktrees THEN Done("NotFound")
          ELSE IF TruthyStr(currentLock) /\ currentLock[1] # agentId
          THEN Done("LockConflict")
          ELSE CallRec("lock", feature, agentId, "write", currentLock, <<>>, "", <<>>, {}))
     /\ UNCHANGED <<worktrees, branches, commits, mainHead, origin, ignoreEnv,
                    marksLinked, work, porcelain, metadata, envLocal, last>>

\* lockWorktree from there: fs.writeFileSync, which fails when the
\* directory is gone
lockWorktreeWrite(p, t) ==
  /\ At(p, "lock", "write")
  /\ LET c == calls[p]
         d == getWorktreeDir(c.feature)
     IN IF d \notin DOMAIN worktrees
        THEN /\ calls' = Put(calls, p, [c EXCEPT !.pc = "done", !.err = "CommandFailure"])
             /\ UNCHANGED metadata
        ELSE /\ calls' = Put(calls, p, [c EXCEPT !.pc = "done", !.err = "ok"])
             /\ metadata' = Put(metadata, d, lockData(c.agent, t))
  /\ UNCHANGED <<worktrees, branches, commits, mainHead, origin, ignoreEnv,
                 marksLinked, work, porcelain, envLocal, last>>

\* portRequest up to the choice of the port: the listing and the reads of
\* the documents, taken as one step
portRequestScan(p, feature) ==
  LET d == getWorktreeDir(feature)
      assigned == assignedPort
      Done(err) == CallRec("portRequest", feature, "", "done", <<>>, <<>>, err, <<>>, {})
  IN /\ Free(p)
     /\ calls' = Put(calls, p,
          IF d \notin DOMAIN worktrees THEN Done("NotFound")
          ELSE IF assigned = -1 THEN Done("RangeExhausted")
          ELSE CallRec("portRequest", feature, "", "write", <<assigned>>, <<>>, "", <<>>, {}))
     /\ UNCHANGED <<worktrees, branches, commits, mainHead, origin, ignoreEnv,
                    marksLinked, work, porcelain, metadata, envLocal, last>>

\* portRequest from there: the document is read again, the port set and
\* the two files written
portRequestWrite(p) ==
  /\ At(p, "portRequest", "write")
  /\ LET c == calls[p]
         d == getWorktreeDir(c.feature)
         assigned == c.seen[1]
     IN IF d \notin DOMAIN worktrees
        THEN /\ calls' = Put(calls, p, [c EXCEPT !.pc = "done", !.err = "CommandFailure"])
             /\ UNCHANGED <<metadata, envLocal>>
        ELSE /\ calls' = Put(calls, p, [c EXCEPT !.pc = "done", !.err = "ok",
                                                 !.ret = <<assigned>>])
             /\ metadata' = Put(metadata, d, Put(readData(d), "port", assigned))
             /\ envLocal' = Put(envLocal, d, assigned)
  /\ UNCHANGED <<worktrees, branches, commits, mainHead, origin, ignoreEnv,
                 marksLinked, work, porcelain, last>>

\* gc: listWorktrees
gcList(p) ==
  /\ Free(p)
  /\ calls' = Put(calls, p,
       CallRec("gc", NoFeature, "", "check", listWorktrees, <<>>, "", <<>>, {}))
  /\ UNCHANGED <<worktrees, branches, commits, mainHead, origin, ignoreEnv,
                 marksLinked, work, porcelain, metadata, envLocal, last>>

\* gc, the next worktree of the listing: merged now, clean when listed,
\* unlocked now
gcCheck(p) ==
  /\ At(p, "gc", "check")
  /\ \E wt \in calls[p].seen :
       LET c == calls[p]
           eligible == /\ origin # <<>>
                       /\ isMerged(wt)
                       /\ wt.isClean
                       /\ ~TruthyStr(getLockStatus(wt.path))
       IN calls' = Put(calls, p,
            IF eligible
            THEN [c EXCEPT !.pc = "remove", !.seen = c.seen \ {wt}, !.cur = <<wt>>]
            ELSE [c EXCEPT !.seen = c.seen \ {wt}])
  /\ UNCHANGED <<worktrees, branches, commits, mainHead, origin, ignoreEnv,
                 marksLinked, work, porcelain, metadata, envLocal, last>>

\* gc, `git worktree remove` and `git branch -d` for that worktree; a
\* failure of either is caught
gcRemove(p) ==
  /\ At(p, "gc", "remove")
  /\ LET c == calls[p]
         wt == c.cur[1]
         d == wt.path
         removable == d \in DOMAIN worktrees /\ gitWorktreeRemoveOk(d, FALSE)
         deletable == /\ removable
                      /\ wt.branch \in DOMAIN branches
                      /\ gitBranchDeleteOk(wt.branch)
     IN /\ worktrees' = IF removable THEN Drop(worktrees, d) ELSE worktrees
        /\ work' = IF removable THEN Drop(work, d) ELSE work
        /\ metadata' = IF removable THEN Drop(metadata, d) ELSE metadata
        /\ envLocal' = IF removable THEN Drop(envLocal, d) ELSE envLocal
        /\ branches' = IF deletable THEN Drop(branches, wt.branch) ELSE branches
        /\ calls' = Put(calls, p,
             [c EXCEPT !.pc = "check", !.cur = <<>>,
                       !.removed = IF deletable THEN c.removed \cup {wt.branch}
                                   ELSE c.removed])
  /\ UNCHANGED <<commits, mainHead, origin, ignoreEnv, marksLinked, porcelain, last>>

\* gc returns the removed list
gcReturn(p) ==
  /\ At(p, "gc", "check")
  /\ calls[p].seen = {}
  /\ calls' = Put(calls, p, [calls[p] EXCEPT !.pc = "done", !.err = "ok"])
  /\ UNCHANGED <<worktrees, branches, commits, mainHead, origin, ignoreEnv,
                 marksLinked, work, porcelain, metadata, envLocal, last>>

\* two processes, while worktrees are created: each runs a lock or a
\* portRequest, or the second one gc
Procs == {1, 2}
GcProcs == {2}
RaceAgents == {"agentA", "agentB"}

NextRace ==
  \/ \E f \in PortFeatures : addWorktree(f)
  \/ \E p \in Procs, f \in Features, a \in RaceAgents : lockWorktreeRead(p, f, a)
  \/ \E p \in Procs, t \in Times : lockWorktreeWrite(p, t)
  \/ \E p \in Procs, f \in PortFeatures : portRequestScan(p, f)
  \/ \E p \in Procs : portRequestWrite(p)
  \/ \E p \in GcProcs : gcList(p)
  \/ \E p \in Procs : gcCheck(p)
  \/ \E p \in Procs : gcRemove(p)
  \/ \E p \in Procs : gcReturn(p)

SpecRace == Init /\ [][NextRace]_vars


\* ------------------------------------------------ a lock that stays held
\* worktrees are created and locked, checkpoints saved and restored, files
\* written, branches merged and gc run; no operation releases a lock or
\* removes a worktree except gc
NextHeldLock ==
  \/ \E f \in Features : addWorktree(f)
  \/ \E f \in Features, a \in Agents, t \in Times : lockWorktree(f, a, t)
  \/ \E f \in Features : CheckpointRoom /\ checkpointSave(f)
  \/ \E f \in Features : checkpointRestore(f)
  \/ \E f \in Features, n \in UserFiles, c \in Contents : writeFile(f, n, c)
  \/ \E f \in Features : mergeIntoMain(f)
  \/ gc

SpecHeldLock == Init /\ [][NextHeldLock]_vars


\* --------------------------------------------- several feature identifiers
\* worktrees are created, locked, unlocked and removed under identifiers
\* of which two differ only in a separator
Identifiers == {<<"f", "/", "x">>, <<"f", "-", "x">>, <<"g">>}
IdentifierAgents == {"agentA", "agentB"}

NextIdentifiers ==
  \/ \E f \in Identifiers : addWorktree(f)
  \/ \E f \in Identifiers : removeWorktree(f, TRUE)
  \/ \E f \in Identifiers, a \in IdentifierAgents, t \in Times : lockWorktree(f, a, t)
  \/ \E f \in Identifiers, a \in IdentifierAgents : unlockWorktree(f, a, FALSE)

SpecIdentifiers == InitPorts /\ [][NextIdentifiers]_vars

\* ------------------------------------------------------------ the claims
\* what list() reports as the lock owner of the worktree of feature f, and
\* the port its metadata records, in a metadata store md
Owner(md, f) ==
  IF getWorktreeDir(f) \in DOMAIN md
  THEN Opt(md[getWorktreeDir(f)], "lockedBy") ELSE <<>>
PortOf(md, d) == IF d \in DOMAIN md THEN Opt(md[d], "port") ELSE <<>>
Exists(wts, f) == getWorktreeDir(f) \in DOMAIN wts
LockOk(f, a) == Call("lock", f, a, FALSE, "ok", <<>>, {})

\* C1: for an existing worktree f and agents A # B, once lock(f, A) has
\* succeeded, lock(f, B) fails with a lock conflict and the recorded owner
\* is still A.
C1_SecondLockConflicts ==
  [][\A f \in Features, a \in Agents, b \in Agents, t \in Times :
       (a # b /\ last = LockOk(f, a) /\ lockWorktree(f, b, t))
         => (last'.err = "LockConflict" /\ Owner(metadata', f) = <<a>>)]_vars

\* C1 holds of every agent identifier but the empty one
C1_NonEmptyOwnerKept ==
  [][\A f \in Features, a \in Agents \ {""}, b \in Agents, t \in Times :
       (a # b /\ last = LockOk(f, a) /\ lockWorktree(f, b, t))
         => (last'.err = "LockConflict" /\ Owner(metadata', f) = <<a>>)]_vars

\* the lock owner that list() reports for feature f: the lockedBy of the
\* WorktreeInfo whose path is f's directory
ListedOwner(infos, f) ==
  {wt.lockedBy : wt \in {w \in infos : w.path = getWorktreeDir(f)}}

\* C2: for an existing worktree f and any agent identifier A, after
\* lock(f, A) succeeds list() reports f with lockedBy = A, and after a
\* following unlock(f, A, false) list() reports f with no lock owner.
C2_LockThenUnlockListed ==
  [][\A f \in Features, a \in Agents, t \in Times :
       /\ (lockWorktree(f, a, t) /\ last'.err = "ok")
            => ListedOwner(listWorktrees', f) = {<<a>>}
       /\ (last = LockOk(f, a) /\ unlockWorktree(f, a, FALSE))
            => (last'.err = "ok" /\ ListedOwner(listWorktrees', f) = {<<>>})]_vars

\* C2 holds of every agent identifier but the empty one
C2_NonEmptyRoundTrip ==
  [][\A f \in Features, a \in Agents \ {""}, t \in Times :
       /\ (lockWorktree(f, a, t) /\ last'.err = "ok")
            => ListedOwner(listWorktrees', f) = {<<a>>}
       /\ (last = LockOk(f, a) /\ unlockWorktree(f, a, FALSE))
            => (last'.err = "ok" /\ ListedOwner(listWorktrees', f) = {<<>>})]_vars

\* C3: on a worktree locked by A, unlock(f, B, false) with B # A fails
\* with a lock conflict and leaves the owner A; unlock(f, B, true)
\* succeeds and leaves the worktree unlocked.
C3_UnlockByOther ==
  [][\A f \in Features, a \in Agents, b \in Agents :
       (a # b /\ Exists(worktrees, f) /\ Owner(metadata, f) = <<a>>)
         => /\ unlockWorktree(f, b, FALSE)
                 => (last'.err = "LockConflict" /\ Owner(metadata', f) = <<a>>)
            /\ unlockWorktree(f, b, TRUE)
                 => (last'.err = "ok" /\ Owner(metadata', f) = <<>>)]_vars

\* C3 holds when the owner A is not the empty identifier
C3_NonEmptyOwner ==
  [][\A f \in Features, a \in Agents \ {""}, b \in Agents :
       (a # b /\ Exists(worktrees, f) /\ Owner(metadata, f) = <<a>>)
         => /\ unlockWorktree(f, b, FALSE)
                 => (last'.err = "LockConflict" /\ Owner(metadata', f) = <<a>>)
            /\ unlockWorktree(f, b, TRUE)
                 => (last'.err = "ok" /\ Owner(metadata', f) = <<>>)]_vars

\* C4: handoff(f, B) on an existing worktree succeeds in every lock state
\* and leaves the owner B, and a following unlock(f, B, false) succeeds
\* and leaves the worktree unlocked.
HandoffOk(f, b) == Call("handoff", f, b, FALSE, "ok", <<>>, {})

C4_HandoffThenUnlock ==
  [][\A f \in Features, b \in Agents, t \in Times :
       /\ (Exists(worktrees, f) /\ handoff(f, b, t))
            => (last'.err = "ok" /\ Owner(metadata', f) = <<b>>)
       /\ (last = HandoffOk(f, b) /\ unlockWorktree(f, b, FALSE))
            => (last'.err = "ok" /\ Owner(metadata', f) = <<>>)]_vars

\* C4 holds when the new owner B is not the empty identifier
C4_NonEmptyHandoff ==
  [][\A f \in Features, b \in Agents \ {""}, t \in Times :
       /\ (Exists(worktrees, f) /\ handoff(f, b, t))
            => (last'.err = "ok" /\ Owner(metadata', f) = <<b>>)
       /\ (last = HandoffOk(f, b) /\ unlockWorktree(f, b, FALSE))
            => (last'.err = "ok" /\ Owner(metadata', f) = <<>>)]_vars

\* the steps that C5 lets end A's ownership of f: an unlock by A, a forced
\* unlock, a handoff, a forced remove
EndsOwnership(f, a) ==
  \/ \E force \in BOOLEAN : unlockWorktree(f, a, force)
  \/ \E b \in Agents : unlockWorktree(f, b, TRUE)
  \/ \E b \in Agents, t \in Times : handoff(f, b, t)
  \/ removeWorktree(f, TRUE)

\* C5: once f is locked by A, every completed operation other than an
\* unlock by A, a forced unlock, a handoff or a forced remove of f leaves
\* f in existence and owned by A.
C5_OwnerKept ==
  [][\A f \in Features, a \in Agents :
       (Exists(worktrees, f) /\ Owner(metadata, f) = <<a>> /\ ~EndsOwnership(f, a))
         => (Exists(worktrees', f) /\ Owner(metadata', f) = <<a>>)]_vars

\* C5 holds when the owner A is not the empty identifier
C5_NonEmptyOwnerKept ==
  [][\A f \in Features, a \in Agents \ {""} :
       (Exists(worktrees, f) /\ Owner(metadata, f) = <<a>> /\ ~EndsOwnership(f, a))
         => (Exists(worktrees', f) /\ Owner(metadata', f) = <<a>>)]_vars

\* ------------------------------------------------------------ port leases
\* the ports that the metadata of the registered worktrees record
HeldPorts == {p \in Ports : \E d \in DOMAIN worktrees : PortOf(metadata, d) = <<p>>}
PortRequestOk(f, p) == Call("portRequest", f, "", FALSE, "ok", <<p>>, {})

\* C6: a successful portRequest(f) returns a port p of 8000..8050, the
\* smallest one that no registered worktree's metadata held at the call.
C6_SmallestFreePort ==
  [][\A f \in PortFeatures :
       (last'.op = "portRequest" /\ last'.err = "ok" /\ portRequest(f))
         => LET held == HeldPorts
            IN \E p \in Ports :
                 /\ last'.ret = <<p>>
                 /\ p \notin held
                 /\ \A q \in PortLo..(p - 1) : q \in held]_vars

\* a request has been given a port above the first while the ports below
\* it were held
C6_Witness ==
  \E f \in PortFeatures :
    /\ last = PortRequestOk(f, PortLo + 1)
    /\ \E d \in DOMAIN worktrees \ {getWorktreeDir(f)} :
         PortOf(metadata, d) = <<PortLo>>

\* C7: after any sequence of completed operations no two distinct
\* worktrees hold the same port in their metadata.
C7_PortsUnique ==
  \A d1 \in DOMAIN worktrees, d2 \in DOMAIN worktrees :
    (d1 # d2 /\ PortOf(metadata, d1) # <<>>)
      => PortOf(metadata, d1) # PortOf(metadata, d2)

\* the operations on f that C9 names, and the operations on another
\* worktree
KeepsLease(f) ==
  \/ \E a \in Agents, t \in Times : lockWorktree(f, a, t)
  \/ \E a \in Agents, force \in BOOLEAN : unlockWorktree(f, a, force)
  \/ \E a \in Agents, t \in Times : handoff(f, a, t)
  \/ \E m \in Messages : contextSet(f, m)
  \/ checkpointSave(f)
  \/ checkpointRestore(f)
  \/ \E g \in PortFeatures \ {f} :
       \/ addWorktree(g)
       \/ removeWorktree(g, TRUE)
       \/ portRequest(g)
       \/ portRelease(g)

\* C9: a port leased to f stays recorded as f's port, and is given to no
\* other worktree, through lock, unlock, handoff, contextSet,
\* checkpointSave, checkpointRestore and operations on other worktrees.
C9_LeaseKept ==
  [][\A f \in PortFeatures, p \in Ports :
       (Exists(worktrees, f) /\ PortOf(metadata, getWorktreeDir(f)) = <<p>>
          /\ KeepsLease(f))
         => /\ PortOf(metadata', getWorktreeDir(f)) = <<p>>
            /\ \A d \in DOMAIN worktrees' \ {getWorktreeDir(f)} :
                 PortOf(metadata', d) # <<p>>]_vars

\* C8: when every port of the range is held by a registered worktree,
\* portRequest(f) on a worktree f fails as range exhausted and changes no
\* metadata document and no environment file.
C8_ExhaustedFails ==
  [][\A f \in PortFeatures :
       (Exists(worktrees, f) /\ HeldPorts = Ports /\ portRequest(f))
         => /\ last'.err = "RangeExhausted"
            /\ metadata' = metadata
            /\ envLocal' = envLocal]_vars

\* a request has failed as range exhausted with the whole range held
C8_Witness ==
  /\ last.op = "portRequest"
  /\ last.err = "RangeExhausted"
  /\ HeldPorts = Ports
  /\ Exists(worktrees, last.feature)

\* -------------------------------------------------------------------- gc
\* C10: gc, run alone, neither removes nor lists in its result the branch
\* of a worktree that is locked or not clean when it runs, merged or not.
C10_GcSparesLockedAndDirty ==
  [][gc => \A wt \in listWorktrees :
             (wt.lockedBy # <<>> \/ ~wt.isClean)
               => /\ wt.path \in DOMAIN worktrees'
                  /\ wt.branch \in DOMAIN branches'
                  /\ wt.branch \notin last'.removed]_vars

\* C10 for the worktrees that are not clean or whose owner is a non-empty
\* identifier
C10_NonEmptyOwnerSpared ==
  [][gc => \A wt \in listWorktrees :
             (TruthyStr(wt.lockedBy) \/ ~wt.isClean)
               => /\ wt.path \in DOMAIN worktrees'
                  /\ wt.branch \in DOMAIN branches'
                  /\ wt.branch \notin last'.removed]_vars

\* the branches of the worktrees registered before a step and not after it
RemovedWorktreeBranches ==
  {wt.branch : wt \in {w \in listWorktrees : w.path \notin DOMAIN worktrees'}}

\* C11: the removed list of gc is exactly the set of branches whose
\* worktrees that call removed, and every listed branch was deleted: a
\* worktree removed before a failing branch deletion is listed too.
C11_RemovedListExact ==
  [][gc => /\ last'.removed = RemovedWorktreeBranches
           /\ \A b \in last'.removed : b \notin DOMAIN branches']_vars

\* every branch that gc lists had its worktree removed and was deleted
C11_ListedWereRemoved ==
  [][gc => /\ last'.removed \subseteq RemovedWorktreeBranches
           /\ \A b \in last'.removed : b \notin DOMAIN branches']_vars

\* a worktree for which every step of gc's loop body succeeds: the merge
\* check runs and finds its branch, it is clean, it has no lock owner and
\* `git worktree remove` accepts it
GcProcessable(wt) ==
  /\ origin # <<>>
  /\ \/ wt.branch \in mergedBranches(origin[1])
     \/ wt.branch \in mergedBranches(mainHead)
  /\ wt.isClean
  /\ wt.lockedBy = <<>>
  /\ StatusLines(wt.path) = {}

\* C12: gc returns normally, and a failure of the merge check, of the
\* removal or of the branch deletion on one worktree does not keep it from
\* removing every other worktree that is eligible.
C12_GcSkipsFailures ==
  [][gc => /\ last'.err = "ok"
           /\ \A wt \in listWorktrees :
                GcProcessable(wt) => wt.path \notin DOMAIN worktrees']_vars

\* gc has removed and listed the second worktree in a call in which the
\* removal of the first one, merged, clean and unlocked, failed: gc left
\* the first one as it was
C12_Witness ==
  /\ last.op = "gc"
  /\ Lessee \in last.removed
  /\ \E wt \in listWorktrees :
       /\ isMerged(wt) /\ wt.isClean /\ wt.lockedBy = <<>>
       /\ StatusLines(wt.path) # {}

\* ------------------------------------------------------------ checkpoints
\* the last completed call is a successful checkpointSave(f): only file
\* writes and merges have followed it
SavedLast(f) ==
  /\ last.op = "checkpointSave" /\ last.err = "ok" /\ last.feature = f
  /\ Exists(worktrees, f)
RestoredLast(f) ==
  /\ last.op = "checkpointRestore" /\ last.err = "ok" /\ last.feature = f
  /\ Exists(worktrees, f)
BaseOf(md, f) ==
  IF getWorktreeDir(f) \in DOMAIN md
  THEN Opt(md[getWorktreeDir(f)], "checkpointBase") ELSE <<>>
LastCheckpointOf(md, f) ==
  IF getWorktreeDir(f) \in DOMAIN md
  THEN Opt(md[getWorktreeDir(f)], "lastCheckpoint") ELSE <<>>
\* the files of f's working tree written since the save that SavedLast
\* names: at the save every file was committed
WrittenSinceSave(f) ==
  {n \in DOMAIN work[getWorktreeDir(f)] :
     Opt(work[getWorktreeDir(f)], n) # Opt(HeadTree(getWorktreeDir(f)).files, n)}

\* C13: checkpointSave(f) then checkpointRestore(f) undoes what was done
\* to the working tree in between: a file written after the save, and
\* absent from the commit restored to, no longer exists after the restore.
C13_WrittenFilesGone ==
  [][\A f \in Features :
       (SavedLast(f) /\ checkpointRestore(f))
         => \A n \in WrittenSinceSave(f) :
              n \notin DOMAIN commits[BaseOf(metadata, f)[1]].files
                => n \notin DOMAIN work'[getWorktreeDir(f)]]_vars

\* C13 for the files that the checkpoint commit holds
C13_CommittedFilesGone ==
  [][\A f \in Features :
       (SavedLast(f) /\ checkpointRestore(f))
         => \A n \in WrittenSinceSave(f) \cap DOMAIN HeadTree(getWorktreeDir(f)).files :
              n \notin DOMAIN commits[BaseOf(metadata, f)[1]].files
                => n \notin DOMAIN work'[getWorktreeDir(f)]]_vars

\* the files that the head of f's worktree or the commit c tracks
TrackedBy(f, c) ==
  DOMAIN HeadTree(getWorktreeDir(f)).files \cup DOMAIN commits[c].files

\* C14: checkpointRestore(f) resets the worktree to the head that preceded
\* the last checkpointSave(f): the save records that head as the base,
\* and the restore that follows moves the head to it and gives every
\* tracked file the content it has there (none: the file is gone), both
\* for changes that the checkpoint commit captured and for later edits.
C14_RestoresPreSaveHead ==
  [][\A f \in Features :
       /\ (Exists(worktrees, f) /\ checkpointSave(f))
            => BaseOf(metadata', f) = <<HeadOf(getWorktreeDir(f))>>
       /\ (SavedLast(f) /\ checkpointRestore(f))
            => LET d == getWorktreeDir(f)
                   base == BaseOf(metadata, f)[1]
               IN /\ last'.err = "ok"
                  /\ branches'[worktrees[d]] = base
                  /\ \A n \in TrackedBy(f, base) :
                       Opt(work'[d], n) = Opt(commits[base].files, n)]_vars

\* a restore that followed two saves has dropped the file that the second
\* checkpoint commit had captured and left the tracked file as the base
\* holds it
C14_Witness ==
  \E f \in Features :
    /\ RestoredLast(f)
    /\ HeadOf(getWorktreeDir(f)) = RootCommit + 1
    /\ Len(commits) = MaxCheckpointCommits
    /\ "new.txt" \in DOMAIN commits[MaxCheckpointCommits].files
    /\ "new.txt" \notin DOMAIN work[getWorktreeDir(f)]
    /\ Opt(commits[RootCommit + 1].files, "data.txt") = <<"v1">>
    /\ Opt(commits[MaxCheckpointCommits].files, "data.txt") = <<"v1">>
    /\ Opt(work[getWorktreeDir(f)], "data.txt") = <<"v1">>

\* C15: checkpointRestore(f) fails with NoCheckpoint and changes nothing
\* when no checkpointBase is recorded for f; a successful restore clears
\* checkpointBase and lastCheckpoint, and a second restore with no save in
\* between fails with NoCheckpoint.
C15_NoCheckpointWithoutBase ==
  [][\A f \in Features :
       (Exists(worktrees, f) /\ checkpointRestore(f))
         => /\ BaseOf(metadata, f) = <<>>
                 => /\ last'.err = "NoCheckpoint"
                    /\ UNCHANGED <<gitVars, metadata, envLocal>>
            /\ last'.err = "ok"
                 => /\ BaseOf(metadata', f) = <<>>
                    /\ LastCheckpointOf(metadata', f) = <<>>
            /\ RestoredLast(f) => last'.err = "NoCheckpoint"]_vars

\* a restore that followed a successful restore has failed
C15_Witness ==
  \E f \in Features :
    /\ last.op = "checkpointRestore" /\ last.err = "NoCheckpoint"
    /\ last.feature = f
    /\ Exists(worktrees, f)
    /\ getWorktreeDir(f) \in DOMAIN metadata
    /\ Len(commits) > RootCommit

\* C16: a second checkpointSave(f) with no restore in between records the
\* commit that the first save produced as the base, in place of the head
\* that preceded the first save, which no field of the document names any
\* more; the restore that follows moves the head to the recorded base and
\* clears it.
C16_SecondSaveOverwritesBase ==
  [][\A f \in Features :
       /\ (SavedLast(f) /\ checkpointSave(f))
            => /\ last'.err = "ok"
               /\ BaseOf(metadata', f) = last.ret
               /\ BaseOf(metadata, f) # last.ret
                    => /\ BaseOf(metadata', f) # BaseOf(metadata, f)
                       /\ LastCheckpointOf(metadata', f) # BaseOf(metadata, f)
       /\ (SavedLast(f) /\ checkpointRestore(f))
            => /\ <<branches'[worktrees[getWorktreeDir(f)]]>> = BaseOf(metadata, f)
               /\ BaseOf(metadata', f) = <<>>]_vars

\* after two saves that each made a commit, a restore has moved the head
\* to the commit of the first save
C16_Witness ==
  \E f \in Features :
    /\ RestoredLast(f)
    /\ Len(commits) = MaxCheckpointCommits
    /\ commits[MaxCheckpointCommits].parent = RootCommit + 1
    /\ commits[RootCommit + 1].parent = RootCommit
    /\ HeadOf(getWorktreeDir(f)) = RootCommit + 1
    /\ BaseOf(metadata, f) = <<>>

\* C17: a successful checkpointRestore(f) returns the commit it reset the
\* worktree to, the checkpointBase recorded before the call.
C17_ReturnsRestoredCommit ==
  [][\A f \in Features :
       (Exists(worktrees, f) /\ checkpointRestore(f) /\ last'.err = "ok")
         => /\ last'.ret = BaseOf(metadata, f)
            /\ last'.ret = <<branches'[worktrees[getWorktreeDir(f)]]>>]_vars

\* C18: a successful checkpointSave(f) records the head before the call as
\* checkpointBase and the head after it as lastCheckpoint, and returns
\* lastCheckpoint; with nothing to commit it succeeds with lastCheckpoint
\* equal to checkpointBase.
C18_SaveRecordsHeads ==
  [][\A f \in Features :
       (Exists(worktrees, f) /\ checkpointSave(f))
         => LET d == getWorktreeDir(f)
            IN /\ last'.err = "ok"
               /\ BaseOf(metadata', f) = <<branches[worktrees[d]]>>
               /\ LastCheckpointOf(metadata', f) = <<branches'[worktrees[d]]>>
               /\ last'.ret = LastCheckpointOf(metadata', f)
               /\ StatusLines(d) = {}
                    => LastCheckpointOf(metadata', f) = BaseOf(metadata', f)
               /\ StatusLines(d) # {}
                    => /\ branches'[worktrees[d]] # branches[worktrees[d]]
                       /\ commits'[branches'[worktrees[d]]].parent = branches[worktrees[d]]
                       /\ commits'[branches'[worktrees[d]]].files = work[d]]_vars

\* a save with nothing to commit has succeeded after a save that made a
\* commit
C18_Witness ==
  \E f \in Features :
    /\ SavedLast(f)
    /\ Len(commits) > RootCommit
    /\ last.ret = BaseOf(metadata, f)
    /\ last.ret = LastCheckpointOf(metadata, f)

\* the rule of each bucket, and the buckets in their order of priority
Matches(b, code) ==
  CASE b = "conflicts" -> code \in ConflictCodes
    [] b = "modified" -> \E i \in 1..Len(code) : code[i] = "M"
    [] b = "added" -> (\E i \in 1..Len(code) : code[i] = "A") \/ code = <<"?", "?">>
    [] b = "deleted" -> \E i \in 1..Len(code) : code[i] = "D"

Priority == <<"conflicts", "modified", "added", "deleted">>

\* the bucket with rank k is the first one whose rule the line's code matches
FirstMatching(k, line) ==
  /\ Matches(Priority[k], substring(line, 0, 2))
  /\ \A j \in 1..(k - 1) : ~Matches(Priority[j], substring(line, 0, 2))

\* the paths, in input order, of the lines whose first matching bucket has
\* rank k
ExpectedList(k, lines) ==
  LET Test(line) == FirstMatching(k, line)
      sel == SelectSeq(lines, Test)
  IN [i \in 1..Len(sel) |-> substring(sel[i], 3, Len(sel[i]))]

StatusReturned == last.op = "status" /\ last.err = "ok"

\* C19: status puts the path of every line it classifies in the first
\* bucket, in the order conflicts, modified, added, deleted, whose rule the
\* line's code matches, in no second bucket, and keeps the order of the
\* lines inside each bucket; AM and MD are modified, AD is added, and the
\* lines "UU f", " M o", "?? n" give conflicts [f], modified [o], added [n]
\* and no deleted.
C19_FirstMatchingBucket ==
  StatusReturned =>
    LET lines == statusLines(porcelain)
        r == last.ret[1]
    IN /\ r.conflicts = ExpectedList(1, lines)
       /\ r.modified = ExpectedList(2, lines)
       /\ r.added = ExpectedList(3, lines)
       /\ r.deleted = ExpectedList(4, lines)
       /\ Len(r.conflicts) + Len(r.modified) + Len(r.added) + Len(r.deleted)
            <= Len(lines)
       /\ bucket(<<"A", "M">>) = "modified"
       /\ bucket(<<"M", "D">>) = "modified"
       /\ bucket(<<"A", "D">>) = "added"
       /\ LET e == statusResult(statusLines(
                     <<[code |-> <<"U", "U">>, path |-> <<"f">>],
                       [code |-> <<" ", "M">>, path |-> <<"o">>],
                       [code |-> <<"?", "?">>, path |-> <<"n">>]>>))
          IN /\ e.conflicts = <<<<"f">>>>
             /\ e.modified = <<<<"o">>>>
             /\ e.added = <<<<"n">>>>
             /\ e.deleted = <<>>
             /\ ~e.isClean

\* status has classified AM b and MD a: both are modified, b before a
C19_Witness ==
  /\ StatusReturned
  /\ porcelain = <<[code |-> <<"A", "M">>, path |-> <<"b">>],
                   [code |-> <<"M", "D">>, path |-> <<"a">>]>>
  /\ last.ret[1].modified = <<<<"b">>, <<"a">>>>
  /\ last.ret[1].added = <<>>
  /\ last.ret[1].deleted = <<>>

\* C20: whatever git prints, the isClean flag that status returns is true
\* exactly when the conflicts, modified, added and deleted lists are all
\* empty.
C20_CleanIffListsEmpty ==
  StatusReturned =>
    LET r == last.ret[1]
    IN r.isClean <=> /\ r.conflicts = <<>>
                     /\ r.modified = <<>>
                     /\ r.added = <<>>
                     /\ r.deleted = <<>>

\* the lists that status returns are all empty when it reports isClean
C20_CleanHasEmptyLists ==
  StatusReturned =>
    LET r == last.ret[1]
    IN r.isClean => /\ r.conflicts = <<>>
                    /\ r.modified = <<>>
                    /\ r.added = <<>>
                    /\ r.deleted = <<>>

\* separators become a hyphen, allowed characters stay, the others go
RECURSIVE ExpectedName(_)
ExpectedName(s) ==
  IF s = <<>> THEN <<>>
  ELSE (IF Head(s) \in {"/", "\\"} THEN <<"-">>
        ELSE IF Head(s) \in Letters \cup Digits \cup {"-"} THEN <<Head(s)>>
        ELSE <<>>) \o ExpectedName(Tail(s))

\* C21: the path that resolvePath returns depends only on the feature
\* identifier, whatever the state of the repository: it is the identifier
\* with every separator replaced by a hyphen and every character outside
\* [a-zA-Z0-9-] dropped (feature/x gives feature-x), and normalising it
\* again returns it unchanged.
C21_PathDeterministic ==
  last.op = "switch" =>
    /\ last.err = "ok"
    /\ last.ret = <<ExpectedName(last.feature)>>
    /\ \A i \in 1..Len(last.ret[1]) : last.ret[1][i] \in AllowedChars
    /\ normalized(last.ret[1]) = last.ret[1]
    /\ normalized(<<"f", "e", "a", "t", "u", "r", "e", "/", "x">>)
         = <<"f", "e", "a", "t", "u", "r", "e", "-", "x">>

\* the path of an identifier with a separator and a disallowed character
\* was resolved while the worktree of another feature existed and was
\* locked
C21_Witness ==
  /\ last.op = "switch"
  /\ last.feature = <<"f", "/", ".">>
  /\ last.ret = <<<<"f", "-">>>>
  /\ worktrees # Empty
  /\ \E d \in DOMAIN metadata : "lockedBy" \in DOMAIN metadata[d]

\* C22: an unforced remove of a worktree whose document names an owner, or
\* which is not clean, fails and leaves the worktree, its files and its
\* metadata document as they were, with the lock reported before the
\* dirty state; a forced remove removes the worktree and its metadata
\* document whether or not it is locked or dirty.
C22_RemoveGuards ==
  [][\A f \in Features :
       LET d == getWorktreeDir(f)
       IN /\ (Exists(worktrees, f) /\ removeWorktree(f, FALSE)
                /\ (getLockStatus(d) # <<>> \/ ~isClean(d)))
               => /\ last'.err # "ok"
                  /\ TruthyStr(getLockStatus(d)) => last'.err = "LockConflict"
                  /\ UNCHANGED <<gitVars, metadata, envLocal>>
          /\ (Exists(worktrees, f) /\ removeWorktree(f, TRUE))
               => /\ last'.err = "ok"
                  /\ d \notin DOMAIN worktrees'
                  /\ d \notin DOMAIN metadata'
                  /\ d \notin DOMAIN work']_vars

\* the same for a worktree whose owner is not the empty string
C22_NonEmptyOwnerGuards ==
  [][\A f \in Features :
       LET d == getWorktreeDir(f)
       IN /\ (Exists(worktrees, f) /\ removeWorktree(f, FALSE)
                /\ (TruthyStr(getLockStatus(d)) \/ ~isClean(d)))
               => /\ last'.err # "ok"
                  /\ TruthyStr(getLockStatus(d)) => last'.err = "LockConflict"
                  /\ UNCHANGED <<gitVars, metadata, envLocal>>
          /\ (Exists(worktrees, f) /\ removeWorktree(f, TRUE))
               => /\ last'.err = "ok"
                  /\ d \notin DOMAIN worktrees'
                  /\ d \notin DOMAIN metadata'
                  /\ d \notin DOMAIN work']_vars

\* the optional value of field k of f's metadata document in the store md
FieldOf(md, f, k) ==
  IF getWorktreeDir(f) \in DOMAIN md THEN Opt(md[getWorktreeDir(f)], k) ELSE <<>>

OtherFields == {"context", "port", "lastCheckpoint", "checkpointBase"}

\* C23: a successful unlock of f leaves the context, port, lastCheckpoint
\* and checkpointBase fields of f's metadata document with the values they
\* had before it.
C23_UnlockKeepsOtherFields ==
  [][\A f \in Features, a \in Agents, force \in BOOLEAN :
       (Exists(worktrees, f) /\ unlockWorktree(f, a, force) /\ last'.err = "ok")
         => \A k \in OtherFields : FieldOf(metadata', f, k) = FieldOf(metadata, f, k)]_vars

\* an unlock of an unlocked worktree changes no field
C23_UnlockOfUnlockedKeepsFields ==
  [][\A f \in Features, a \in Agents, force \in BOOLEAN :
       (Exists(worktrees, f) /\ unlockWorktree(f, a, force) /\ last'.err = "ok"
          /\ ~TruthyStr(getLockStatus(getWorktreeDir(f))))
         => \A k \in OtherFields : FieldOf(metadata', f, k) = FieldOf(metadata, f, k)]_vars

\* C24: a successful lock(f, A) leaves the context, port, lastCheckpoint
\* and checkpointBase fields of f's metadata document with the values they
\* had before it, so that a checkpoint saved before the lock can be
\* restored after it.
C24_LockKeepsOtherFields ==
  [][\A f \in Features, a \in Agents \ {""}, t \in Times :
       (Exists(worktrees, f) /\ lockWorktree(f, a, t) /\ last'.err = "ok")
         => /\ \A k \in OtherFields : FieldOf(metadata', f, k) = FieldOf(metadata, f, k)
            /\ TruthyNum(FieldOf(metadata, f, "checkpointBase"))
                 => TruthyNum(FieldOf(metadata', f, "checkpointBase"))]_vars

\* a successful lock(f, A) records A as the owner
C24_LockWritesOwner ==
  [][\A f \in Features, a \in Agents, t \in Times :
       (Exists(worktrees, f) /\ lockWorktree(f, a, t) /\ last'.err = "ok")
         => /\ FieldOf(metadata', f, "lockedBy") = <<a>>
            /\ FieldOf(metadata', f, "timestamp") = <<t>>]_vars

\* C25: lock(f, A) on a worktree that A has locked succeeds and leaves the
\* owner A and the other fields of the metadata document, the timestamp
\* aside, as they were.
C25_RelockIsNoOp ==
  [][\A f \in Features, a \in Agents \ {""}, t \in Times :
       (Exists(worktrees, f) /\ getLockStatus(getWorktreeDir(f)) = <<a>>
          /\ lockWorktree(f, a, t))
         => /\ last'.err = "ok"
            /\ FieldOf(metadata', f, "lockedBy") = <<a>>
            /\ \A k \in OtherFields : FieldOf(metadata', f, k) = FieldOf(metadata, f, k)]_vars

\* lock(f, A) on a worktree that A has locked succeeds and leaves A the
\* owner
C25_RelockKeepsOwner ==
  [][\A f \in Features, a \in Agents \ {""}, t \in Times :
       (Exists(worktrees, f) /\ getLockStatus(getWorktreeDir(f)) = <<a>>
          /\ lockWorktree(f, a, t))
         => /\ last'.err = "ok"
            /\ FieldOf(metadata', f, "lockedBy") = <<a>>]_vars

Failures ==
  {"NotFound", "AlreadyExists", "LockConflict", "DirtyState", "CommandFailure",
   "NoCheckpoint", "RangeExhausted"}

\* C26: a call other than gc that fails (worktree absent, creation
\* collision, lock conflict, dirty or locked worktree in an unforced
\* remove, no checkpoint, range exhausted) leaves the registered worktrees,
\* every metadata document and every environment file as they were.
C26_FailureChangesNothing ==
  [][(last' # last /\ last'.op # "gc" /\ last'.err \in Failures)
       => UNCHANGED <<worktrees, metadata, envLocal, work, branches, commits>>]_vars

\* a port request has failed on the exhausted range for a worktree that is
\* locked and has a context
C26_Witness ==
  /\ last.op = "portRequest" /\ last.err = "RangeExhausted"
  /\ Exists(worktrees, last.feature)
  /\ TruthyStr(FieldOf(metadata, last.feature, "lockedBy"))
  /\ FieldOf(metadata, last.feature, "context") # <<>>

\* both processes have completed a lock of the same feature with success,
\* for different agents
BothLocksSucceeded ==
  /\ \A p \in Procs : At(p, "lock", "done") /\ calls[p].err = "ok"
  /\ calls[1].feature = calls[2].feature
  /\ calls[1].agent # calls[2].agent

\* C27: when two lock invocations by different agents on the same worktree
\* have both returned success, both had read the worktree as unlocked before
\* either wrote, and the metadata names exactly one of the two as owner: the
\* other's update is lost.
C27_LostLockUpdate ==
  BothLocksSucceeded =>
    LET d == getWorktreeDir(calls[1].feature)
    IN /\ \A p \in Procs : calls[p].seen = <<>>
       /\ d \in DOMAIN metadata
       /\ getLockStatus(d) \in {<<calls[1].agent>>, <<calls[2].agent>>}
       /\ \E p \in Procs : getLockStatus(d) # <<calls[p].agent>>

C27_Witness ==
  /\ BothLocksSucceeded
  /\ getLockStatus(getWorktreeDir(calls[1].feature)) = <<calls[2].agent>>

\* the worktrees whose metadata hold port n
Holders(n) == {d \in DOMAIN worktrees : PortOf(metadata, d) = <<n>>}

\* C28: at every instant, also while portRequest invocations of different
\* processes for different worktrees interleave their scan and their write,
\* no port is held by the metadata of two worktrees.
C28_PortsUniqueAtEveryInstant ==
  \A n \in Ports : Cardinality(Holders(n)) <= 1

\* every port that an interleaved request writes is in the range, and a
\* worktree's environment file carries the port of its metadata
C28_PortsInRange ==
  \A d \in DOMAIN worktrees :
    PortOf(metadata, d) # <<>> =>
      /\ PortOf(metadata, d)[1] \in Ports
      /\ d \in DOMAIN envLocal
      /\ envLocal[d] = PortOf(metadata, d)[1]

\* C29: a worktree that a successful lock invocation has locked, the lock
\* not released since, is still there after gc.  (Under SpecHeldLock only
\* gc removes a worktree and nothing removes an owner, so a worktree whose
\* metadata name an owner has been locked by a completed lock call.)
C29_GcKeepsHeldLock ==
  [][gc => \A d \in DOMAIN worktrees :
             (d \in DOMAIN metadata /\ "lockedBy" \in DOMAIN metadata[d])
               => d \in DOMAIN worktrees']_vars

\* C29 while gc and lock interleave, for an owner that is not the empty
\* string: once a process's lock call has returned success and the metadata
\* name its agent, the worktree is there, whatever gc has read before.
C29_RacingGcKeepsHeldLock ==
  \A p \in Procs :
    (At(p, "lock", "done") /\ calls[p].err = "ok")
      => LET d == getWorktreeDir(calls[p].feature)
         IN /\ d \in DOMAIN worktrees
            /\ TruthyStr(getLockStatus(d))

\* gc had read the worktree as unlocked and is about to remove it, and the
\* lock call has returned success in between
C29_RacingGcReached ==
  \E p \in Procs, q \in Procs :
    /\ At(p, "lock", "done") /\ calls[p].err = "ok"
    /\ At(q, "gc", "remove")
    /\ calls[q].cur[1].path = getWorktreeDir(calls[p].feature)

\* lock(g, b) would fail with a lock conflict
WouldConflict(md, g, b) ==
  LET d == getWorktreeDir(g)
      owner == IF d \in DOMAIN md THEN Opt(md[d], "lockedBy") ELSE <<>>
  IN TruthyStr(owner) /\ owner[1] # b

\* a successful lock(f, a) leaves g's reported owner, and whether lock(g, b)
\* conflicts, as they were; a successful create(f) leaves whether g exists
\* as it was
ActsOnOtherWorktree(f, g) ==
  /\ \A a \in IdentifierAgents, t \in Times :
       (lockWorktree(f, a, t) /\ last'.err = "ok")
         => /\ getLockStatus(getWorktreeDir(g))' = getLockStatus(getWorktreeDir(g))
            /\ \A b \in IdentifierAgents :
                 WouldConflict(metadata', g, b) = WouldConflict(metadata, g, b)
  /\ (addWorktree(f) /\ last'.err = "ok")
       => (Exists(worktrees', g) = Exists(worktrees, g))

\* C30: for distinct feature identifiers f # g, a successful lock(f, A)
\* changes neither the owner reported for g nor whether lock(g, B) fails
\* with a lock conflict, and a successful create(f) does not make create(g)
\* fail as already existing.
C30_DistinctIdentifiersDistinctWorktrees ==
  [][\A f \in Identifiers, g \in Identifiers :
       f # g => ActsOnOtherWorktree(f, g)]_vars

\* C30 for identifiers whose directory names differ
C30_DistinctDirectoriesDistinctWorktrees ==
  [][\A f \in Identifiers, g \in Identifiers :
       getWorktreeDir(f) # getWorktreeDir(g) => ActsOnOtherWorktree(f, g)]_vars

\* ------------------------------------------- a request by a port holder
\* portRequest(f) on an existing worktree that holds port p: a success
\* gives the smallest port that no worktree held, which is not p, and f
\* holds it afterwards; a failure is range-exhausted with the whole range
\* held, and f keeps p
RequestByHolder(f, p) ==
  LET d == getWorktreeDir(f)
      held == HeldPorts
  IN IF last'.err = "ok"
     THEN /\ Len(last'.ret) = 1
          /\ LET q == last'.ret[1]
             IN /\ q \in Ports \ {p}
                /\ q \notin held
                /\ \A r \in PortLo..(q - 1) : r \in held
                /\ PortOf(metadata', d) = <<q>>
     ELSE /\ last'.err = "RangeExhausted"
          /\ held = Ports
          /\ PortOf(metadata', d) = <<p>>

\* the worktrees of wts whose documents in md hold port n
HoldersIn(wts, md, n) == {d \in DOMAIN wts : PortOf(md, d) = <<n>>}

\* f exists and holds a port, and portRequest(f) is the step
HolderRequests(f) ==
  /\ Exists(worktrees, f)
  /\ PortOf(metadata, getWorktreeDir(f)) # <<>>
  /\ portRequest(f)

\* C31: portRequest(f) on a worktree that holds port p assigns the
\* smallest port held by no worktree, different from p, and afterwards no
\* worktree holds p; when every other port is taken too it fails as range
\* exhausted and f keeps p.
C31_HolderGetsAnotherPort ==
  [][\A f \in PortFeatures :
       HolderRequests(f)
         => LET p == PortOf(metadata, getWorktreeDir(f))[1]
            IN /\ RequestByHolder(f, p)
               /\ last'.err = "ok" => HoldersIn(worktrees', metadata', p) = {}]_vars

\* C31 without the release of p, which another worktree may hold as well
C31_HolderGetsAnotherPortOnly ==
  [][\A f \in PortFeatures :
       HolderRequests(f)
         => RequestByHolder(f, PortOf(metadata, getWorktreeDir(f))[1])]_vars

\* C31 where f is the only holder of p
C31_SoleHolderReleases ==
  [][\A f \in PortFeatures :
       HolderRequests(f)
         => LET p == PortOf(metadata, getWorktreeDir(f))[1]
            IN Holders(p) = {getWorktreeDir(f)}
                 => /\ RequestByHolder(f, p)
                    /\ last'.err = "ok" => HoldersIn(worktrees', metadata', p) = {}]_vars

\* ------------------------------------------------- state-only operations
\* a step of lock, unlock, handoff, contextSet or portRelease on f
MetadataOnlyStep(f) ==
  \/ \E a \in PortAgents, t \in Times : lockWorktree(f, a, t)
  \/ \E a \in PortAgents : unlockWorktree(f, a, FALSE)
  \/ \E a \in PortAgents, t \in Times : handoff(f, a, t)
  \/ \E m \in Messages : contextSet(f, m)
  \/ portRelease(f)

\* every worktree that list() reported clean before the step is reported
\* clean after it
KeepsCleanliness ==
  \A wt \in listWorktrees :
    wt.isClean => /\ wt.path \in DOMAIN worktrees'
                  /\ isClean(wt.path)'

\* C32: lock, unlock, handoff, contextSet, portRequest and portRelease
\* leave every worktree that list() reported clean reported clean.
C32_StateOpsKeepClean ==
  [][\A f \in PortFeatures :
       (MetadataOnlyStep(f) \/ portRequest(f)) => KeepsCleanliness]_vars

\* C32 for the operations that write metadata.json only
C32_MetadataOpsKeepClean ==
  [][\A f \in PortFeatures : MetadataOnlyStep(f) => KeepsCleanliness]_vars

\* ------------------------------------------------ gc of a fresh worktree
\* the branch of the listed worktree points at the commit main started
\* from: it has received no commit of its own
Fresh(wt) == branches[wt.branch] = RootCommit

\* gc has removed the worktree and deleted its branch
Collected(wt) ==
  /\ wt.path \notin DOMAIN worktrees'
  /\ wt.branch \notin DOMAIN branches'
  /\ wt.branch \in last'.removed

\* C33: gc removes every worktree whose branch has no commit of its own,
\* and deletes its branch, whenever list() reports it clean and it has no
\* owner.
C33_FreshWorktreeCollected ==
  [][gc => \A wt \in listWorktrees :
             (Fresh(wt) /\ wt.isClean /\ wt.lockedBy = <<>>)
               => Collected(wt)]_vars

\* C33 where origin/main exists, git lists the branch of a linked worktree
\* under its bare name, and the working tree has no change at all, its
\* metadata.json included
C33_FreshUnchangedWorktreeCollected ==
  [][gc => \A wt \in listWorktrees :
             (/\ Fresh(wt) /\ wt.isClean /\ wt.lockedBy = <<>>
              /\ origin # <<>> /\ ~marksLinked
              /\ StatusLines(wt.path) = {})
               => Collected(wt)]_vars

\* gc has collected a fresh worktree: its branch is gone and nothing was
\* ever committed
C33_FreshCollectedReached ==
  /\ last.op = "gc"
  /\ last.removed # {}
  /\ Len(commits) = 1
====
